---- MODULE Spec2Model ----
(***************************************************************************)
(* A model of the Scrappey MCP server: the two builds of the dispatcher    *)
(* (index.js and index.ts), their session registries, the remote command   *)
(* client, the resource handlers and the CSS selector synthesis.           *)
(*                                                                         *)
(* JavaScript values are records tagged by their type (field t).  A        *)
(* JavaScript object is a function from its own keys to values.  A string  *)
(* whose structure matters (a resource URI, a class attribute, a selector) *)
(* is a sequence of pieces whose concatenation is the string; in a URI the *)
(* separator "://" is always a piece of its own.                           *)
(***************************************************************************)
EXTENDS Integers, Sequences, FiniteSets, TLC

VARIABLES
    build,           \* which program runs: "js" (index.js) or "ts" (index.ts)
    activeSessions,  \* index.js: the Set of session ids, in insertion order
    sessions,        \* index.ts: the Map of session ids, keys in insertion order
    calls,           \* the tool invocations in flight, one per slot
    wire,            \* the commands posted to the backend and not yet answered
    reply,           \* the last reply handed back to the protocol client
    element,         \* the element handed to getCssSelector
    selector,        \* what getCssSelector returned for it
    before,          \* the registry a create/destroy round trip started from
    returned         \* the registry updates, in the order their calls returned

vars ==
    <<build, activeSessions, sessions, calls, wire, reply, element, selector, before,
      returned>>

\* What no handler writes.
frame == <<build, element, selector, before, returned>>

----
\* Bounds of the model.

\* How many tool invocations may be awaiting their remote call at once.
MaxInFlight == 2

\* How many characters a class attribute has at most.
MaxClassLen == 3

\* How many registry updates the history of returned calls holds at most.
MaxReturned == 2

\* How deep below the top element of a page elements are nested at most.
MaxNesting == 1

----
\* JavaScript values.

Undef == [t |-> "undefined"]

Null == [t |-> "null"]

Str(s) == [t |-> "str", v |-> s]

Num(n) == [t |-> "num", v |-> n]

Obj(f) == [t |-> "obj", v |-> f]

List(l) == [t |-> "list", v |-> l]

\* The empty object {}.
EmptyObj == Obj(<<>>)

\* ToBoolean: what `x ? a : b`, `if (x)` and `x || y` test.
Truthy(x) ==
    CASE x.t = "undefined" -> FALSE
      [] x.t = "null" -> FALSE
      [] x.t = "str" -> x.v # ""
      [] x.t = "num" -> x.v # 0
      [] OTHER -> TRUE

Nullish(x) == x.t \in {"undefined", "null"}

\* x.k for a value that is not null or undefined: an own key's value, else
\* undefined.  (On null or undefined the access throws; see CanRead.)
Get(x, k) == IF x.t = "obj" /\ k \in DOMAIN x.v THEN x.v[k] ELSE Undef

\* Whether x.k evaluates without a TypeError.
CanRead(x) == ~Nullish(x)

\* x?.k
OptGet(x, k) == IF Nullish(x) THEN Undef ELSE Get(x, k)

\* `${x}` for the values that reach a template literal here.
ToStr(x) ==
    CASE x.t = "undefined" -> "undefined"
      [] x.t = "null" -> "null"
      [] x.t = "str" -> x.v
      [] OTHER -> "[value]"

\* The object literal { k1: v1, ... }: every key listed is an own key, also
\* when its value is undefined.
Literal(keys, val(_)) == Obj([k \in keys |-> val(k)])

\* { cmd, ...params }: the keys of params are copied over cmd.
Spread(cmd, params) ==
    Obj([k \in {"cmd"} \cup DOMAIN params.v |->
            IF k \in DOMAIN params.v THEN params.v[k] ELSE cmd])

\* A serialisation that writes null for an undefined value.
RECURSIVE SerializeNullPadded(_)
SerializeNullPadded(x) ==
    CASE x.t = "obj" -> Obj([k \in DOMAIN x.v |-> SerializeNullPadded(x.v[k])])
      [] x.t = "list" -> List([i \in 1..Len(x.v) |-> SerializeNullPadded(x.v[i])])
      [] x.t = "undefined" -> Null
      [] OTHER -> x

\* JSON.stringify of an object, as axios does to the request body: a key
\* whose value is undefined is left out, one level deep and inside the
\* objects of a list.
RECURSIVE Serialize(_)
Serialize(x) ==
    CASE x.t = "obj" ->
            Obj([k \in {j \in DOMAIN x.v : x.v[j].t # "undefined"} |-> Serialize(x.v[k])])
      [] x.t = "list" -> List([i \in 1..Len(x.v) |-> Serialize(x.v[i])])
      [] OTHER -> x

----
\* The session registries.  A JavaScript Set and the keys of a Map both keep
\* insertion order, so each is a sequence without duplicates.

SetHas(set, x) == \E i \in 1..Len(set) : set[i] = x

\* An add that puts a new id first.
SetAddFirst(set, x) == IF SetHas(set, x) THEN set ELSE <<x>> \o set

SetAdd(set, x) == IF SetHas(set, x) THEN set ELSE Append(set, x)

\* A delete that forgets nothing.
SetDeleteNothing(set, x) == set

SetDelete(set, x) == SelectSeq(set, LAMBDA y : y # x)

\* sessions.set(k, k): the Map of index.ts holds each id under itself.
MapSet(map, k) == IF SetHas(map, k) THEN map ELSE Append(map, k)

MapDelete(map, k) == SelectSeq(map, LAMBDA y : y # k)

\* A registry that every continuation takes as it was when the calls began.
RegistryAtStart == before

\* The registry of the running build.
Registry == IF build = "js" THEN activeSessions ELSE sessions

----
\* Selector synthesis (index.js, getCssSelector).  An element is a record of
\* its tag name and its attributes (a function from the names of the
\* attributes present to their values); DOM strings are sequences of pieces.

\* element.id and element.className reflect the attribute, "" when absent.
Attr(el, a) == IF a \in DOMAIN el.attrs THEN el.attrs[a] ELSE <<>>

\* String.prototype.split(' '): cut at every space, keeping empty parts.
RECURSIVE SplitAt(_, _)
SplitAt(s, sep) ==
    IF \A i \in 1..Len(s) : s[i] # sep
    THEN <<s>>
    ELSE LET i == CHOOSE j \in 1..Len(s) :
                      s[j] = sep /\ \A k \in 1..(j - 1) : s[k] # sep
         IN  <<SubSeq(s, 1, i - 1)>> \o SplitAt(SubSeq(s, i + 1, Len(s)), sep)

\* classes.join('.')
RECURSIVE JoinWith(_, _)
JoinWith(parts, sep) ==
    IF parts = <<>> THEN <<>>
    ELSE IF Len(parts) = 1 THEN parts[1]
    ELSE parts[1] \o <<sep>> \o JoinWith(Tail(parts), sep)

\* tagName.toLowerCase()
ToLowerCase(tag) ==
    CASE tag = "A" -> "a"
      [] tag = "BUTTON" -> "button"
      [] tag = "INPUT" -> "input"
      [] OTHER -> tag

\* className.split(' ').filter(c => c)
ClassList(className) == SelectSeq(SplitAt(className, " "), LAMBDA c : c # <<>>)

getCssSelector(el) ==
    IF Attr(el, "id") # <<>>
    THEN <<"#">> \o Attr(el, "id")
    ELSE IF Attr(el, "class") # <<>> /\ Len(ClassList(Attr(el, "class"))) > 0
    THEN <<".">> \o JoinWith(ClassList(Attr(el, "class")), ".")
    ELSE <<ToLowerCase(el.tagName)>>
         \o (IF "name" \in DOMAIN el.attrs
             THEN <<"[name=\"">> \o el.attrs["name"] \o <<"\"]">>
             ELSE <<>>)

----
\* Result envelopes (CallToolResult).  A text is the sequence of the pieces
\* of its template literal.

\* A template literal, held as its pieces.
Template(pieces) == [form |-> "template", pieces |-> pieces]

\* JSON.stringify(value, null, 2), held as the value it prints.
JsonText(value) == [form |-> "json", value |-> value]

TextResult(text, isError) ==
    [content |-> <<[type |-> "text", text |-> text]>>, isError |-> isError]

\* What a handler does next: post one command and await the answer, or return.
SendCommand(cmd, params) == [kind |-> "send", cmd |-> cmd, params |-> params]

Return(result) == [kind |-> "return", result |-> result]

\* A completed body of handleToolCall: it returned an envelope or threw, and
\* left the registry as reg.
Returned(result, reg) == [kind |-> "return", result |-> result, reg |-> reg]

Threw(message, reg) == [kind |-> "throw", message |-> message, reg |-> reg]

\* A default branch that forwards the unknown name to the backend.
UnknownToolForwarded(name) == [kind |-> "send", cmd |-> Str(name), params |-> EmptyObj]

\* The default branch of the switch: an unknown tool name posts nothing.
UnknownTool(name) == Return(TextResult(Template(<<"Unknown tool: ", name>>), TRUE))

----
\* index.js, handleToolCall up to its await: the command each tool posts.

\* A dispatcher that forwards only the actions that have a type.
JsFirstAwaitTyped(name, args) ==
    SendCommand(Str("request.get"),
                Literal({"session", "browserActions", "filter"},
                        LAMBDA k : IF k = "browserActions" /\ Get(args, k).t = "list"
                                   THEN List(SelectSeq(Get(args, k).v,
                                                       LAMBDA a : "type" \in DOMAIN a.v))
                                   ELSE Get(args, k)))

JsFirstAwait(name, args) ==
    CASE name = "scrappey_create_session" ->
            SendCommand(Str("sessions.create"), args)
      [] name = "scrappey_destroy_session" ->
            SendCommand(Str("sessions.destroy"),
                        Literal({"session"}, LAMBDA k : Get(args, "session")))
      [] name = "scrappey_request" ->
            SendCommand(Get(args, "cmd"),
                        Literal({"url", "filter", "session", "postData", "customHeaders"},
                                LAMBDA k : Get(args, k)))
      [] name = "scrappey_browser_action" ->
            SendCommand(Str("request.get"),
                        Literal({"session", "browserActions", "filter"},
                                LAMBDA k : Get(args, k)))
      [] OTHER -> UnknownTool(name)

\* A scrappey_wait that always waits a fixed delay.
WaitActionFixedDelay(args) == Obj([type |-> Str("wait"), wait |-> Get(args, "seconds")])

\* index.ts, scrappey_wait: which action the arguments select.
WaitAction(args) ==
    IF Truthy(Get(args, "selector"))
    THEN Obj([type |-> Str("wait_for_selector"),
              cssSelector |-> Get(args, "selector"),
              timeout |-> Get(args, "timeout")])
    ELSE Obj([type |-> Str("wait"), wait |-> Get(args, "seconds")])

\* index.ts: { session: args.sessionId, browserActions: [action] }
OneAction(args, action) ==
    SendCommand(Str("request.get"),
                Obj([session |-> Get(args, "sessionId"),
                     browserActions |-> List(<<action>>)]))

\* index.ts, handleToolCall up to its await.
TsFirstAwait(name, args) ==
    CASE name = "scrappey_create_session" ->
            SendCommand(Str("sessions.create"), args)
      [] name = "scrappey_close_session" ->
            SendCommand(Str("sessions.destroy"),
                        Obj([session |-> Get(args, "sessionId")]))
      [] name = "scrappey_navigate" ->
            SendCommand(Str("request.get"),
                        Obj([session |-> Get(args, "sessionId"),
                             url |-> Get(args, "url"),
                             customHeaders |-> Get(args, "customHeaders"),
                             cookies |-> Get(args, "cookies")]))
      [] name = "scrappey_click" ->
            OneAction(args, Obj([type |-> Str("click"),
                                 cssSelector |-> Get(args, "selector"),
                                 wait |-> Get(args, "wait"),
                                 waitForSelector |-> Get(args, "waitForSelector"),
                                 when |-> Get(args, "when"),
                                 ignoreErrors |-> Get(args, "ignoreErrors")]))
      [] name = "scrappey_type" ->
            OneAction(args, Obj([type |-> Str("type"),
                                 cssSelector |-> Get(args, "selector"),
                                 text |-> Get(args, "text"),
                                 wait |-> Get(args, "wait"),
                                 when |-> Get(args, "when"),
                                 ignoreErrors |-> Get(args, "ignoreErrors")]))
      [] name = "scrappey_execute_js" ->
            OneAction(args, Obj([type |-> Str("execute_js"),
                                 code |-> Get(args, "code")]))
      [] name = "scrappey_solve_captcha" ->
            OneAction(args, Obj([type |-> Str("solve_captcha"),
                                 captcha |-> Get(args, "captchaType"),
                                 captchaData |->
                                     Obj([sitekey |-> Get(args, "sitekey"),
                                          cssSelector |-> Get(args, "cssSelector"),
                                          inputSelector |-> Get(args, "inputSelector"),
                                          clickSelector |-> Get(args, "clickSelector")])]))
      [] name = "scrappey_wait" -> OneAction(args, WaitAction(args))
      [] OTHER -> UnknownTool(name)

FirstAwait(b, name, args) ==
    IF b = "js" THEN JsFirstAwait(name, args) ELSE TsFirstAwait(name, args)

----
\* The remote command client (makeRequest) once axios.post has settled.  An
\* outcome is the backend's answer [ok |-> TRUE, data |-> payload] or a
\* transport failure [ok |-> FALSE, message |-> m].

Value(v) == [kind |-> "value", value |-> v]

Raise(message) == [kind |-> "throw", message |-> message]

makeRequest(outcome) ==
    IF outcome.ok
    THEN Value(outcome.data)
    ELSE Raise(<<"Scrappey API error: ", outcome.message>>)

\* The TypeError of reading a property of null or undefined.
TypeError(x, k) ==
    Raise(<<"Cannot read properties of ", ToStr(x), " (reading '", k, "')">>)

----
\* The response annotator of scrappey_request and scrappey_browser_action.
\* A document is the sequence of its top elements in document order; an
\* element is [tagName, attrs, text, kids]: its own text and, after it, its
\* child elements.

SelectorNote(el) == <<" <!-- selector: ">> \o getCssSelector(el) \o <<" -->">>

\* The textContent getter: the text of the element and of its descendants.
RECURSIVE TextContent(_)
TextContent(el) ==
    LET RECURSIVE Of(_)
        Of(k) == IF k = <<>> THEN <<>> ELSE TextContent(Head(k)) \o Of(Tail(k))
    IN  el.text \o Of(el.kids)

\* The textContent setter: one text node takes the place of every child.
SetTextContent(el, text) == [el EXCEPT !.text = text, !.kids = <<>>]

\* querySelectorAll(tag).forEach(e => e.textContent = `${e.textContent} <!--
\* selector: ... -->`) below el: the elements are visited in document order,
\* and one inside another of the same tag is out of the document by the
\* time it is visited.
RECURSIVE AnnotateText(_, _)
AnnotateText(el, tag) ==
    IF ToLowerCase(el.tagName) = tag
    THEN SetTextContent(el, TextContent(el) \o SelectorNote(el))
    ELSE [el EXCEPT !.kids = [i \in 1..Len(el.kids) |-> AnnotateText(el.kids[i], tag)]]

\* querySelectorAll('input').forEach(input => input.setAttribute(
\* 'placeholder', ...)) below el.
RECURSIVE AnnotateInput(_)
AnnotateInput(el) ==
    IF ToLowerCase(el.tagName) = "input"
    THEN [el EXCEPT !.attrs =
              [a \in DOMAIN el.attrs \cup {"placeholder"} |->
                  IF a = "placeholder"
                  THEN Attr(el, "placeholder") \o SelectorNote(el)
                  ELSE el.attrs[a]]]
    ELSE [el EXCEPT !.kids = [i \in 1..Len(el.kids) |-> AnnotateInput(el.kids[i])]]

\* The three passes in their order: links, then buttons, then inputs, each
\* over the document the pass before it left.
AnnotateElement(el) == AnnotateInput(AnnotateText(AnnotateText(el, "a"), "button"))

Annotate(doc) == [i \in 1..Len(doc) |-> AnnotateElement(doc[i])]

\* A result.markdown that is translated whatever the payload holds.
MarkdownUnguarded(data) == [t |-> "markdown", of |-> <<>>]

\* result.markdown: "" unless response?.solution?.response is truthy, and
\* then the translation of the annotated document.
Markdown(data) ==
    LET html == OptGet(OptGet(data, "solution"), "response")
    IN  IF Truthy(html)
        THEN [t |-> "markdown", of |-> Annotate(html.v)]
        ELSE Str("")

----
\* index.js after the await.

\* createSession: throws what makeRequest throws, else reads response.session
\* and adds it to activeSessions.
JsCreateSession(reg, res) ==
    IF res.kind = "throw" THEN Threw(res.message, reg)
    ELSE IF ~CanRead(res.value) THEN Threw(TypeError(res.value, "session").message, reg)
    ELSE [kind |-> "value", value |-> Get(res.value, "session"),
          reg |-> SetAdd(reg, Get(res.value, "session"))]

\* destroySession: deletes the id once makeRequest has returned.
JsDestroySessionOptimistic(reg, sessionId, res) ==
    IF res.kind = "throw" THEN Threw(res.message, SetDelete(reg, sessionId))
    ELSE [kind |-> "value", reg |-> SetDelete(reg, sessionId)]

JsDestroySession(reg, sessionId, res) ==
    IF res.kind = "throw" THEN Threw(res.message, reg)
    ELSE [kind |-> "value", reg |-> SetDelete(reg, sessionId)]

\* A continuation that records the session a call names.
JsResumeRecording(name, args, res, reg) ==
    Returned(TextResult(JsonText([markdown |-> Str("")]), FALSE),
             SetAdd(reg, Get(args, "session")))

\* The body of the try block of handleToolCall, from the await on.
JsResume(name, args, res, reg) ==
    CASE name = "scrappey_create_session" ->
            LET c == JsCreateSession(reg, res)
            IN  IF c.kind = "throw" THEN c
                ELSE Returned(TextResult(Template(<<"Created session: ", ToStr(c.value)>>),
                                         FALSE), c.reg)
      [] name = "scrappey_destroy_session" ->
            LET d == JsDestroySession(reg, Get(args, "session"), res)
            IN  IF d.kind = "throw" THEN d
                ELSE Returned(TextResult(Template(<<"Destroyed session: ",
                                                    ToStr(Get(args, "session"))>>),
                                         FALSE), d.reg)
      [] OTHER ->
            IF res.kind = "throw" THEN Threw(res.message, reg)
            ELSE Returned(TextResult(JsonText([markdown |-> Markdown(res.value)]), FALSE),
                          reg)

----
\* index.ts after the await.

\* createSession returns response.session; the handler records it.
TsCreateSession(res) ==
    IF res.kind = "throw" THEN res
    ELSE IF ~CanRead(res.value) THEN TypeError(res.value, "session")
    ELSE Value(Get(res.value, "session"))

TsFixedText(name, args) ==
    CASE name = "scrappey_navigate" -> <<"Navigated to ", ToStr(Get(args, "url"))>>
      [] name = "scrappey_click" -> <<"Clicked element: ", ToStr(Get(args, "selector"))>>
      [] name = "scrappey_type" -> <<"Typed text into ", ToStr(Get(args, "selector"))>>
      [] name = "scrappey_solve_captcha" -> <<"Solved captcha successfully">>
      [] OTHER -> <<"Wait completed">>

TsResume(name, args, res, reg) ==
    CASE name = "scrappey_create_session" ->
            LET c == TsCreateSession(res)
            IN  IF c.kind = "throw" THEN Threw(c.message, reg)
                ELSE Returned(TextResult(Template(<<"Created session: ", ToStr(c.value)>>),
                                         FALSE), MapSet(reg, c.value))
      [] name = "scrappey_close_session" ->
            IF res.kind = "throw" THEN Threw(res.message, reg)
            ELSE Returned(TextResult(Template(<<"Session closed successfully">>), FALSE),
                          MapDelete(reg, Get(args, "sessionId")))
      [] name = "scrappey_execute_js" ->
            IF res.kind = "throw" THEN Threw(res.message, reg)
            ELSE IF ~CanRead(res.value)
            THEN Threw(TypeError(res.value, "result").message, reg)
            ELSE Returned(TextResult(Template(
                              <<"Executed JavaScript: ",
                                ToStr(IF Truthy(Get(res.value, "result"))
                                      THEN Get(res.value, "result")
                                      ELSE Str("success"))>>), FALSE), reg)
      [] OTHER ->
            IF res.kind = "throw" THEN Threw(res.message, reg)
            ELSE Returned(TextResult(Template(TsFixedText(name, args)), FALSE), reg)

Resume(b, name, args, res, reg) ==
    IF b = "js" THEN JsResume(name, args, res, reg) ELSE TsResume(name, args, res, reg)

\* handleToolCall without its catch block.
CatchNothing(c) == c

\* The catch block of handleToolCall: what the try block throws becomes an
\* error envelope.
Catch(c) ==
    IF c.kind = "throw"
    THEN Returned(TextResult(Template(<<"Error: ">> \o c.message), TRUE), c.reg)
    ELSE c

\* handleToolCall from the await on.
handleToolCall(b, name, args, outcome, reg) ==
    Catch(Resume(b, name, args, makeRequest(outcome), reg))

----
\* What the environment may send: tool calls, backend answers, resource URIs.

\* The objects that hold, for some of the keys of fields, one of the values
\* fields lists for the key.
RECURSIVE Partial(_, _)
Partial(fields, keys) ==
    IF keys = {} THEN {<<>>}
    ELSE LET k == CHOOSE j \in keys : TRUE
             rest == Partial(fields, keys \ {k})
         IN  rest \cup { [j \in DOMAIN f \cup {k} |-> IF j = k THEN v ELSE f[j]] :
                           f \in rest, v \in fields[k] }

Objects(fields) == { Obj(f) : f \in Partial(fields, DOMAIN fields) }

Calls(name, fields) == { [name |-> name, args |-> a] : a \in Objects(fields) }

SessionIds == {Str("s1"), Str("s2")}

SomeActions ==
    { List(<<>>),
      List(<<Obj([type |-> Str("click"), cssSelector |-> Str("#go")])>>),
      List(<<Obj([type |-> Str("type"), cssSelector |-> Str("#q"), text |-> Str("x")]),
             Obj([type |-> Str("click"), cssSelector |-> Str("#go")])>>),
      List(<<Obj([cssSelector |-> Str("#go")])>>) }

\* Every call of a tool of index.js, with each field absent or present, an
\* enumerated field also outside its enum, and two names the build lacks.
JsCalls ==
    Calls("scrappey_create_session", [proxy |-> {Str("http://u:p@h:1")}])
    \cup Calls("scrappey_destroy_session", [session |-> SessionIds])
    \cup Calls("scrappey_request",
               [cmd |-> {Str("request.get"), Str("request.post"), Str("bogus")},
                url |-> {Str("https://example.com")},
                session |-> {Str("s1")},
                postData |-> {Str("k=v")},
                customHeaders |-> {Obj([agent |-> Str("x")])},
                filter |-> {List(<<Str("response")>>)}])
    \cup Calls("scrappey_browser_action",
               [session |-> {Str("s1")}, browserActions |-> SomeActions,
                filter |-> {List(<<Str("response")>>)}])
    \cup Calls("scrappey_navigate", [url |-> {Str("https://example.com")}])
    \cup Calls("no_such_tool", <<>>)

TsCalls ==
    Calls("scrappey_create_session", [proxy |-> {Str("http://u:p@h:1")}])
    \cup Calls("scrappey_close_session", [sessionId |-> SessionIds])
    \cup Calls("scrappey_navigate",
               [url |-> {Str("https://example.com")}, sessionId |-> {Str("s1")},
                customHeaders |-> {Obj([agent |-> Str("x")])},
                cookies |-> {Str("a=b")}])
    \cup Calls("scrappey_click",
               [sessionId |-> {Str("s1")}, selector |-> {Str("#go")},
                wait |-> {Num(1)}, when |-> {Str("afterload"), Str("bogus")}])
    \cup Calls("scrappey_type",
               [sessionId |-> {Str("s1")}, selector |-> {Str("#q")},
                text |-> {Str("x")}])
    \cup Calls("scrappey_execute_js",
               [sessionId |-> {Str("s1")}, code |-> {Str("1+1")}])
    \cup Calls("scrappey_solve_captcha",
               [sessionId |-> {Str("s1")},
                captchaType |-> {Str("turnstile"), Str("bogus")},
                sitekey |-> {Str("key")}])
    \cup Calls("scrappey_wait",
               [sessionId |-> {Str("s1")}, seconds |-> {Num(0), Num(5)},
                selector |-> {Str(""), Str("#go")}, timeout |-> {Num(30)}])
    \cup Calls("scrappey_request", [url |-> {Str("https://example.com")}])
    \cup Calls("no_such_tool", <<>>)

AllCalls(b) == IF b = "js" THEN JsCalls ELSE TsCalls

\* The calls of the session lifecycle, and one call the build does not know.
JsLifecycleCalls ==
    { [name |-> "scrappey_create_session", args |-> EmptyObj],
      [name |-> "no_such_tool", args |-> EmptyObj] }
    \cup { [name |-> "scrappey_destroy_session", args |-> Obj([session |-> id])] :
             id \in SessionIds }

TsLifecycleCalls ==
    { [name |-> "scrappey_create_session", args |-> EmptyObj],
      [name |-> "no_such_tool", args |-> EmptyObj] }
    \cup { [name |-> "scrappey_close_session", args |-> Obj([sessionId |-> id])] :
             id \in SessionIds }

LifecycleCalls(b) == IF b = "js" THEN JsLifecycleCalls ELSE TsLifecycleCalls

\* A solved page: one button without id, class or name.
SomePage ==
    [t |-> "html",
     v |-> <<[tagName |-> "BUTTON", attrs |-> <<>>, text |-> <<"Go">>, kids |-> <<>>]>>]

\* The elements the parser nests in a link or a button: never a link below
\* a link or a button below a button, and nothing in an input.
Interactive == {"A", "BUTTON", "INPUT"}

RECURSIVE TreesOf(_, _, _)
TreesOf(tag, depth, above) ==
    LET inside == IF tag = "INPUT" \/ depth = 0 THEN {}
                  ELSE Interactive \ (above \cup {tag})
        kids == {<<>>} \cup { <<c>> : c \in UNION { TreesOf(t, depth - 1, above \cup {tag}) :
                                                        t \in inside } }
    IN  { [tagName |-> tag, attrs |-> <<>>,
           text |-> IF tag = "INPUT" THEN <<>> ELSE <<"x">>, kids |-> k] : k \in kids }

\* Solved pages of one top element, with elements nested up to MaxNesting.
NestedPages ==
    { [t |-> "html", v |-> <<e>>] : e \in UNION { TreesOf(t, MaxNesting, {}) : t \in Interactive } }

\* response.data for a command: null or {} for any; a session id for
\* sessions.create; a solution with or without a body, or a script result,
\* for a request.
SessionPayloads == { Null, EmptyObj } \cup { Obj([session |-> id]) : id \in SessionIds }

RequestPayloads ==
    { Null, EmptyObj,
      Obj([solution |-> EmptyObj]),
      Obj([solution |-> Null]),
      Obj([solution |-> Obj([response |-> Str("")])]),
      Obj([solution |-> Obj([response |-> SomePage])]),
      Obj([result |-> Str("2")]) }
    \cup { Obj([solution |-> Obj([response |-> page])]) : page \in NestedPages }

Payloads(cmd) ==
    IF cmd = Str("sessions.create") THEN SessionPayloads
    ELSE IF cmd = Str("sessions.destroy") THEN { Null, EmptyObj }
    ELSE RequestPayloads

\* error.message of a failed axios.post.
FailureMessages == {"timeout of 180000ms exceeded", ""}

----
\* The state and its actions.

Slots == 1..MaxInFlight

Idle == [pc |-> "idle"]

NoReply == [kind |-> "none"]

DefaultElement == [tagName |-> "A", attrs |-> <<>>]

\* axios.post(url, { cmd, ...params }): the command as handed to the client
\* and the JSON body that leaves the process.
Post(s, cmd, params) ==
    [call |-> s, cmd |-> cmd, params |-> params,
     body |-> Serialize(Spread(cmd, params))]

\* A client that holds a request back while another is in flight.
OnWireAlone(m) == IF wire = <<>> THEN <<m>> ELSE wire

\* The requests in flight have no order among themselves (any of them may
\* settle next): the wire lists them by the slot of the calling handler.
OnWire(m) ==
    SelectSeq(wire, LAMBDA x : x.call < m.call)
        \o <<m>> \o SelectSeq(wire, LAMBDA x : x.call > m.call)

\* The reply of a tool call: the envelope handleToolCall returned, or the
\* fault that escaped it.
ToolReply(name, args, sent, r) ==
    IF r.kind = "return"
    THEN [kind |-> "tool", name |-> name, args |-> args, sent |-> sent,
          fault |-> FALSE, result |-> r.result]
    ELSE [kind |-> "tool", name |-> name, args |-> args, sent |-> sent,
          fault |-> TRUE]

Init ==
    /\ build \in {"js", "ts"}
    /\ activeSessions = <<>>
    /\ sessions = <<>>
    /\ calls = [s \in Slots |-> Idle]
    /\ wire = <<>>
    /\ reply = NoReply
    /\ element = DefaultElement
    /\ selector = <<>>
    /\ before = <<>>
    /\ returned = <<>>

\* A tool call arrives and runs to its await (or to its return, when it has
\* none): CallToolRequestSchema handler, handleToolCall.
Start(name, args) ==
    LET f == FirstAwait(build, name, args)
    IN  IF f.kind = "send"
        THEN /\ \E s \in Slots :
                  /\ calls[s].pc = "idle"
                  /\ \A r \in 1..(s - 1) : calls[r].pc # "idle"
                  /\ calls' = [calls EXCEPT ![s] =
                                  [pc |-> "awaiting", name |-> name, args |-> args,
                                   sent |-> 1]]
                  /\ wire' = OnWire(Post(s, f.cmd, f.params))
             /\ UNCHANGED <<frame, activeSessions, sessions, reply>>
        ELSE /\ reply' = ToolReply(name, args, 0, f)
             /\ UNCHANGED <<frame, activeSessions, sessions, calls, wire>>

Invoke == \E c \in LifecycleCalls(build) : Start(c.name, c.args)

\* The remote call of the i-th command on the wire settles and its handler
\* runs to its end.
Continue(i, outcome) ==
    LET m == wire[i]
        c == calls[m.call]
        r == handleToolCall(build, c.name, c.args, outcome, Registry)
    IN  /\ calls' = [calls EXCEPT ![m.call] = Idle]
        /\ wire' = SubSeq(wire, 1, i - 1) \o SubSeq(wire, i + 1, Len(wire))
        /\ activeSessions' = IF build = "js" THEN r.reg ELSE activeSessions
        /\ sessions' = IF build = "ts" THEN r.reg ELSE sessions
        /\ reply' = ToolReply(c.name, c.args, c.sent, r)

Settle(i, outcome) == Continue(i, outcome) /\ UNCHANGED frame

Respond ==
    \E i \in 1..Len(wire) :
        \E data \in Payloads(wire[i].cmd) : Settle(i, [ok |-> TRUE, data |-> data])

Fail ==
    \E i \in 1..Len(wire), msg \in FailureMessages :
        Settle(i, [ok |-> FALSE, message |-> msg])

\* A URI is the sequence of its pieces, "://" a piece of its own and no two
\* other pieces adjacent, so each part between separators has at most one
\* piece.
SessionUri(id) == <<"session", "://", ToStr(id)>>

Uris ==
    { SessionUri(Str(x)) : x \in {"s1", "s2"} }
    \cup { <<"session", "://", "s1", "://", "x">>, <<"console", "://", "logs">> }

\* uri.startsWith(scheme + "://")
StartsWith(uri, scheme) == Len(uri) >= 2 /\ uri[1] = scheme /\ uri[2] = "://"

\* uri.split("://")[1]
SplitSecond(uri) ==
    LET part == SplitAt(uri, "://")[2]
    IN  Str(IF part = <<>> THEN "" ELSE part[1])

\* index.ts never writes to consoleLogs or screenshots.
consoleLogs == <<>>

screenshots == <<>>

\* ListResourcesRequestSchema handler.
ListedResources ==
    IF build = "js"
    THEN [i \in 1..Len(activeSessions) |->
              [uri |-> SessionUri(activeSessions[i]), mimeType |-> "text/plain",
               name |-> <<"Active Session: ", ToStr(activeSessions[i])>>]]
    ELSE <<[uri |-> <<"console", "://", "logs">>, mimeType |-> "text/plain",
            name |-> <<"Browser console logs">>]>>
         \o [i \in 1..Len(screenshots) |->
                [uri |-> <<"screenshot", "://", screenshots[i]>>,
                 mimeType |-> "image/png",
                 name |-> <<"Screenshot: ", screenshots[i]>>]]

ListResources ==
    /\ reply' = [kind |-> "list", resources |-> ListedResources]
    /\ UNCHANGED <<frame, activeSessions, sessions, calls, wire>>

\* ReadResourceRequestSchema handler of index.js: whether it returns the
\* contents (TRUE) or throws "Resource not found".
JsReadFinds(uri) ==
    StartsWith(uri, "session") /\ SetHas(activeSessions, SplitSecond(uri))

\* ReadResourceRequestSchema handler of index.ts.
TsReadFinds(uri) ==
    \/ uri = <<"console", "://", "logs">>
    \/ StartsWith(uri, "screenshot")
         /\ \E i \in 1..Len(screenshots) : Str(screenshots[i]) = SplitSecond(uri)

ReadFinds(uri) == IF build = "js" THEN JsReadFinds(uri) ELSE TsReadFinds(uri)

ReadResource ==
    \E uri \in Uris :
        /\ reply' = [kind |-> "read", uri |-> uri, found |-> ReadFinds(uri)]
        /\ UNCHANGED <<frame, activeSessions, sessions, calls, wire>>

Next == Invoke \/ Respond \/ Fail \/ ListResources \/ ReadResource

\* The server from its start, with tool calls in flight concurrently.
Spec == Init /\ [][Next]_vars

\* The remote call of the invocation in slot s settles: the backend answers
\* or the request fails, at the latest when the timeout of 180000 ms ends.
SettleOf(s) ==
    \E i \in 1..Len(wire) :
        /\ wire[i].call = s
        /\ \/ \E data \in Payloads(wire[i].cmd) : Settle(i, [ok |-> TRUE, data |-> data])
           \/ \E msg \in FailureMessages : Settle(i, [ok |-> FALSE, message |-> msg])

\* Calls that await the backend, one that closes a session and one that
\* drives the browser, and a call of a tool the build does not know.
LiveCalls(b) ==
    IF b = "js"
    THEN { [name |-> "scrappey_destroy_session", args |-> Obj([session |-> Str("s1")])],
           [name |-> "scrappey_browser_action",
            args |-> Obj([session |-> Str("s1"), browserActions |-> List(<<>>)])],
           [name |-> "no_such_tool", args |-> EmptyObj] }
    ELSE { [name |-> "scrappey_close_session", args |-> Obj([sessionId |-> Str("s1")])],
           [name |-> "scrappey_click",
            args |-> Obj([sessionId |-> Str("s1"), selector |-> Str("#go")])],
           [name |-> "no_such_tool", args |-> EmptyObj] }

InvokeLive == \E c \in LiveCalls(build) : Start(c.name, c.args)

NextLive == InvokeLive \/ Respond \/ Fail

\* The server with calls in flight together, when every remote call settles
\* in the end.
SpecLive == Init /\ [][NextLive]_vars /\ \A s \in Slots : WF_vars(SettleOf(s))

----
\* One tool call of any kind against any registry the server can hold.

RECURSIVE Orderings(_)
Orderings(S) ==
    IF S = {} THEN {<<>>}
    ELSE UNION { { <<x>> \o o : o \in Orderings(S \ {x}) } : x \in S }

\* The registries Spec reaches by successful creates: every ordering of
\* every set of session ids.
Registries == UNION { Orderings(S) : S \in SUBSET SessionIds }

InitDispatch ==
    /\ build \in {"js", "ts"}
    /\ before \in Registries
    /\ activeSessions = IF build = "js" THEN before ELSE <<>>
    /\ sessions = IF build = "ts" THEN before ELSE <<>>
    /\ calls = [s \in Slots |-> Idle]
    /\ wire = <<>>
    /\ reply = NoReply
    /\ element = DefaultElement
    /\ selector = <<>>
    /\ returned = <<>>

InvokeAny ==
    /\ reply = NoReply
    /\ wire = <<>>
    /\ \E c \in AllCalls(build) : Start(c.name, c.args)

NextDispatch == InvokeAny \/ Respond \/ Fail

SpecDispatch == InitDispatch /\ [][NextDispatch]_vars

----
\* One tool call of any kind, and resource listings and reads, against any
\* registry.

NextFrame == InvokeAny \/ Respond \/ Fail \/ ListResources \/ ReadResource

SpecFrame == InitDispatch /\ [][NextFrame]_vars

----
\* A round trip against any registry: create-session, then destroy-session
\* of the id the create returned.

IdValues == SessionIds \cup {Undef}

IsCreate(name) == name = "scrappey_create_session"

IsDestroy(b, name) ==
    name = IF b = "js" THEN "scrappey_destroy_session" ELSE "scrappey_close_session"

\* The argument that names the session to destroy.
DestroyKey(b) == IF b = "js" THEN "session" ELSE "sessionId"

\* Whether a reply is the success envelope of create-session for id.
Created(r, id) ==
    /\ r.kind = "tool"
    /\ IsCreate(r.name)
    /\ ~r.fault
    /\ ~r.result.isError
    /\ r.result.content[1].text.pieces = <<"Created session: ", ToStr(id)>>

\* Whether a reply is the success envelope of destroy-session.
Destroyed(r) ==
    /\ r.kind = "tool"
    /\ IsDestroy(build, r.name)
    /\ ~r.fault
    /\ ~r.result.isError

CreateFirst ==
    /\ reply = NoReply
    /\ wire = <<>>
    /\ Start("scrappey_create_session", EmptyObj)

DestroyReturned ==
    /\ wire = <<>>
    /\ \E id \in IdValues :
          /\ Created(reply, id)
          /\ Start(IF build = "js" THEN "scrappey_destroy_session"
                                   ELSE "scrappey_close_session",
                   Obj([k \in {DestroyKey(build)} |-> id]))

NextRoundTrip == CreateFirst \/ DestroyReturned \/ Respond \/ Fail

SpecRoundTrip == InitDispatch /\ [][NextRoundTrip]_vars

----
\* Session calls in flight together against any registry, with the history
\* of the registry updates in the order the calls returned.

\* An update, and whether other calls were in flight when its call returned.
Update(op, id, overlapped) == [op |-> op, id |-> id, overlapped |-> overlapped]

\* What a call adds to the history when it ends with reply r: the id a
\* successful create-session returned, or the id a successful
\* destroy-session named.
Logged(r, overlapped) ==
    IF \E x \in IdValues : Created(r, x)
    THEN <<Update("add", CHOOSE x \in IdValues : Created(r, x), overlapped)>>
    ELSE IF Destroyed(r)
    THEN <<Update("delete", Get(r.args, DestroyKey(build)), overlapped)>>
    ELSE <<>>

InvokeSession ==
    /\ Len(returned) + Len(wire) < MaxReturned
    /\ \E c \in LifecycleCalls(build) : Start(c.name, c.args)

RespondReturned ==
    \E i \in 1..Len(wire) :
        \E data \in Payloads(wire[i].cmd) :
            /\ Continue(i, [ok |-> TRUE, data |-> data])
            /\ returned' = returned \o Logged(reply', Len(wire) > 1)
            /\ UNCHANGED <<build, element, selector, before>>

NextInterleave == InvokeSession \/ RespondReturned \/ Fail

SpecInterleave == InitDispatch /\ [][NextInterleave]_vars

----
\* Selector synthesis on its own: one element in, one selector out.

SeqsUpTo(S, n) == UNION { [1..k -> S] : k \in 0..n }

\* A class attribute holds names, spaces and other white space.
ClassChars == {"y", "z", " ", "\t"}

\* Each attribute absent, empty or set.
AttrValues ==
    [id |-> {<<>>, <<"x">>},
     class |-> SeqsUpTo(ClassChars, MaxClassLen),
     name |-> {<<>>, <<"q">>}]

Elements ==
    { [tagName |-> tag, attrs |-> f] :
        tag \in {"A", "BUTTON", "INPUT"}, f \in Partial(AttrValues, DOMAIN AttrValues) }

InitSel ==
    /\ build = "js"
    /\ activeSessions = <<>>
    /\ sessions = <<>>
    /\ calls = [s \in Slots |-> Idle]
    /\ wire = <<>>
    /\ reply = NoReply
    /\ element \in Elements
    /\ selector = <<>>
    /\ before = <<>>
    /\ returned = <<>>

Synthesize ==
    /\ selector = <<>>
    /\ before = <<>>
    /\ selector' = getCssSelector(element)
    /\ UNCHANGED <<build, activeSessions, sessions, calls, wire, reply, element, before,
                   returned>>

NextSel == Synthesize

SpecSel == InitSel /\ [][NextSel]_vars

----
\* The tool catalogue (TOOLS): names, required fields, enumerated fields.

KnownTools(b) ==
    IF b = "js"
    THEN {"scrappey_create_session", "scrappey_destroy_session", "scrappey_request",
          "scrappey_browser_action"}
    ELSE {"scrappey_create_session", "scrappey_close_session", "scrappey_navigate",
          "scrappey_click", "scrappey_type", "scrappey_execute_js",
          "scrappey_solve_captcha", "scrappey_wait"}

\* inputSchema.required
Required(b, name) ==
    IF b = "js"
    THEN CASE name = "scrappey_destroy_session" -> {"session"}
           [] name = "scrappey_request" -> {"url", "cmd", "session"}
           [] name = "scrappey_browser_action" -> {"session", "browserActions"}
           [] OTHER -> {}
    ELSE CASE name = "scrappey_close_session" -> {"sessionId"}
           [] name = "scrappey_navigate" -> {"url", "sessionId"}
           [] name = "scrappey_click" -> {"sessionId", "selector"}
           [] name = "scrappey_type" -> {"sessionId", "selector", "text"}
           [] name = "scrappey_execute_js" -> {"sessionId", "code"}
           [] name = "scrappey_solve_captcha" -> {"sessionId", "captchaType"}
           [] name = "scrappey_wait" -> {"sessionId"}
           [] OTHER -> {}

RequestVerbs ==
    {"request.get", "request.post", "request.put", "request.delete", "request.patch"}

\* The enumerated fields of a tool, each with its allowed values.
Enums(b, name) ==
    IF b = "js"
    THEN CASE name \in {"scrappey_request", "scrappey_browser_action"} ->
                [cmd |-> RequestVerbs]
           [] OTHER -> <<>>
    ELSE CASE name \in {"scrappey_click", "scrappey_type"} ->
                [when |-> {"beforeload", "afterload"}]
           [] name = "scrappey_solve_captcha" ->
                [captchaType |-> {"turnstile", "perimeterx", "recaptcha", "hcaptcha",
                                  "mtcaptcha", "custom"}]
           [] OTHER -> <<>>

----
\* Predicates on replies and commands used by the properties below.

\* The calls in flight with their commands.
InFlight == { i \in 1..Len(wire) : calls[wire[i].call].pc = "awaiting" }

CallOf(i) == calls[wire[i].call]

\* Whether args lack a required field of the tool, or give an enumerated
\* field a value outside its set, or (scrappey_wait) give neither seconds
\* nor selector with timeout.
Invalid(b, name, args) ==
    \/ \E k \in Required(b, name) : k \notin DOMAIN args.v
    \/ \E k \in DOMAIN Enums(b, name) :
          k \in DOMAIN args.v /\ args.v[k].v \notin Enums(b, name)[k]
    \/ /\ b = "ts"
       /\ name = "scrappey_wait"
       /\ "seconds" \notin DOMAIN args.v
       /\ ~({"selector", "timeout"} \subseteq DOMAIN args.v)


Members(reg) == { reg[i] : i \in 1..Len(reg) }

ReplyText(r) == r.result.content[1].text

\* The envelope the catch block builds from what makeRequest throws.
IsRemoteFailure(r) ==
    /\ r.kind = "tool"
    /\ ~r.fault
    /\ r.result.isError
    /\ ReplyText(r).form = "template"
    /\ Len(ReplyText(r).pieces) >= 2
    /\ ReplyText(r).pieces[2] = "Scrappey API error: "

NonEmptyText(text) ==
    text.form = "json" \/ \E i \in 1..Len(text.pieces) : text.pieces[i] # ""

IsSessionTool(b, name) == IsCreate(name) \/ IsDestroy(b, name)

\* A step in which a call in flight ends: its slot falls idle and its
\* envelope is the reply.
Settles == \E s \in Slots : calls[s].pc = "awaiting" /\ calls'[s].pc = "idle"

\* The step in which the remote call of a create-session or destroy-session
\* fails.
FailedSessionCall ==
    Fail /\ \E i \in 1..Len(wire) :
                /\ calls'[wire[i].call].pc = "idle"
                /\ IsSessionTool(build, CallOf(i).name)

----
\* C1: when the remote call of a create-session or of a destroy-session
\* fails, the registry is exactly what it was before that call settled: a
\* failed create records no id and a failed destroy keeps its id.
C1_FailedCallKeepsRegistry ==
    [][FailedSessionCall =>
          /\ activeSessions' = activeSessions
          /\ sessions' = sessions
          /\ IsRemoteFailure(reply')]_vars

\* A destroy-session of a recorded id has failed and the id is still there.
C1_Witness ==
    /\ IsRemoteFailure(reply)
    /\ IsDestroy(build, reply.name)
    /\ SetHas(Registry, Get(reply.args, DestroyKey(build)))

\* C2, as claimed: after a successful create-session and a successful
\* destroy-session of the id it returned, the registry has the members it
\* had before the pair, whatever the registry was.
C2_RoundTripAnyRegistry ==
    Destroyed(reply) => Members(Registry) = Members(before)

\* C2, amended: the same, for a returned id the registry did not already
\* hold; and then the order of the registry is what it was as well.
C2_RoundTripFreshId ==
    (Destroyed(reply) /\ ~SetHas(before, Get(reply.args, DestroyKey(build))))
        => Registry = before

\* A round trip through a non-empty registry with a fresh id has completed.
C2_Witness ==
    /\ Destroyed(reply)
    /\ before # <<>>
    /\ ~SetHas(before, Get(reply.args, DestroyKey(build)))
    /\ Get(reply.args, DestroyKey(build)) \in SessionIds

\* C3: every tool call ends in an envelope with a content list and an
\* isError flag, no fault escapes handleToolCall, and a failed remote call
\* gives isError = TRUE with a non-empty message.
C3_AlwaysAnEnvelope ==
    /\ [](reply.kind = "tool" =>
            /\ ~reply.fault
            /\ Len(reply.result.content) >= 1
            /\ reply.result.isError \in BOOLEAN)
    /\ [][Fail => /\ reply'.kind = "tool"
                  /\ ~reply'.fault
                  /\ reply'.result.isError
                  /\ NonEmptyText(ReplyText(reply'))]_vars

\* A remote call failed with an empty transport message and was reported.
C3_Witness ==
    /\ reply.kind = "tool"
    /\ ~reply.fault
    /\ reply.result.isError
    /\ ReplyText(reply).pieces = <<"Error: ", "Scrappey API error: ", "">>

\* C5: no retry.  A call in flight has posted one command and has one on
\* the wire; a finished call has posted at most one, none for an unknown
\* tool name; a failed remote call ends its call with an error envelope and
\* takes its command off the wire without posting another.
C5_NoRetry ==
    /\ [](/\ \A s \in Slots :
               /\ Cardinality({ i \in 1..Len(wire) : wire[i].call = s })
                     = IF calls[s].pc = "awaiting" THEN 1 ELSE 0
               /\ calls[s].pc = "awaiting" =>
                     calls[s].sent = 1 /\ calls[s].name \in KnownTools(build)
          /\ reply.kind = "tool" =>
               /\ reply.sent <= 1
               /\ reply.name \notin KnownTools(build) => reply.sent = 0)
    /\ [][Fail => /\ Len(wire') = Len(wire) - 1
                  /\ IsRemoteFailure(reply')
                  /\ reply'.sent = 1]_vars

\* A failed remote call has been reported and nothing is left on the wire.
C5_Witness == IsRemoteFailure(reply) /\ reply.sent = 1 /\ wire = <<>>

\* C4, as claimed: a call that lacks a required field or gives an
\* enumerated field a value outside its set posts no command and ends in a
\* failure-tagged envelope.
C4_InvalidCallsAreRefused ==
    /\ \A i \in InFlight : ~Invalid(build, CallOf(i).name, CallOf(i).args)
    /\ (reply.kind = "tool" /\ Invalid(build, reply.name, reply.args)) =>
          (reply.sent = 0 /\ ~reply.fault /\ reply.result.isError)

\* C6, as claimed: the parameter bag handed to makeRequest for a
\* scrappey_request with cmd request.get holds url and session when they
\* were supplied and has no key for an optional field that was not.
C6_BagOmitsAbsentOptionals ==
    \A i \in InFlight :
        (build = "js" /\ CallOf(i).name = "scrappey_request"
            /\ Get(CallOf(i).args, "cmd") = Str("request.get")) =>
            /\ \A k \in {"url", "session"} \cap DOMAIN CallOf(i).args.v :
                   k \in DOMAIN wire[i].params.v
                       /\ wire[i].params.v[k] = CallOf(i).args.v[k]
            /\ \A k \in {"postData", "customHeaders", "filter"} \ DOMAIN CallOf(i).args.v :
                   k \notin DOMAIN wire[i].params.v

\* C6, amended: the JSON body posted to the backend holds url and session
\* when they were supplied and has no key for an optional field that was
\* not; the bag handed to makeRequest holds that key with the value
\* undefined, which the serialisation drops.
C6_BodyOmitsAbsentOptionals ==
    \A i \in InFlight :
        (build = "js" /\ CallOf(i).name = "scrappey_request"
            /\ Get(CallOf(i).args, "cmd") = Str("request.get")) =>
            /\ wire[i].body.v["cmd"] = Str("request.get")
            /\ \A k \in {"url", "session"} \cap DOMAIN CallOf(i).args.v :
                   k \in DOMAIN wire[i].body.v
                       /\ wire[i].body.v[k] = CallOf(i).args.v[k]
            /\ \A k \in {"postData", "customHeaders", "filter"} \ DOMAIN CallOf(i).args.v :
                   /\ k \notin DOMAIN wire[i].body.v
                   /\ k \in DOMAIN wire[i].params.v
                   /\ wire[i].params.v[k] = Undef

\* A request.get with url and session and no optional field is on the wire.
C6_Witness ==
    \E i \in InFlight :
        /\ build = "js"
        /\ CallOf(i).name = "scrappey_request"
        /\ DOMAIN CallOf(i).args.v = {"cmd", "url", "session"}
        /\ CallOf(i).args.v["cmd"] = Str("request.get")
        /\ DOMAIN wire[i].body.v = {"cmd", "url", "session"}

\* The fields of scrappey_wait that choose the action.
WaitFields(args) == DOMAIN args.v \cap {"seconds", "selector", "timeout"}

\* Whether the i-th command carries exactly the one action given.
PostsOneAction(i, action) ==
    /\ Cardinality({ j \in 1..Len(wire) : wire[j].call = wire[i].call }) = 1
    /\ CallOf(i).sent = 1
    /\ Get(wire[i].params, "browserActions") = List(<<action>>)

SelectorWait(args) ==
    Obj([type |-> Str("wait_for_selector"), cssSelector |-> args.v["selector"],
         timeout |-> args.v["timeout"]])

DelayWait(args) == Obj([type |-> Str("wait"), wait |-> args.v["seconds"]])

\* C9, as claimed: scrappey_wait with only selector and timeout posts one
\* wait_for_selector action with that selector and timeout, and with only
\* seconds posts one wait action with that duration.
C9_WaitPicksByFields ==
    \A i \in InFlight :
        (build = "ts" /\ CallOf(i).name = "scrappey_wait") =>
            /\ WaitFields(CallOf(i).args) = {"selector", "timeout"} =>
                   PostsOneAction(i, SelectorWait(CallOf(i).args))
            /\ WaitFields(CallOf(i).args) = {"seconds"} =>
                   PostsOneAction(i, DelayWait(CallOf(i).args))

\* C9, amended: the same, for a selector that is not the empty string (an
\* empty selector counts as none and gives a wait action without duration).
C9_WaitPicksByNonEmptySelector ==
    \A i \in InFlight :
        (build = "ts" /\ CallOf(i).name = "scrappey_wait") =>
            /\ (WaitFields(CallOf(i).args) = {"selector", "timeout"}
                    /\ CallOf(i).args.v["selector"] # Str("")) =>
                   PostsOneAction(i, SelectorWait(CallOf(i).args))
            /\ WaitFields(CallOf(i).args) = {"seconds"} =>
                   PostsOneAction(i, DelayWait(CallOf(i).args))
            /\ (WaitFields(CallOf(i).args) = {"selector", "timeout"}
                    /\ CallOf(i).args.v["selector"] = Str("")) =>
                   PostsOneAction(i, Obj([type |-> Str("wait"), wait |-> Undef]))

\* A wait for a selector with a timeout is on the wire.
C9_Witness ==
    \E i \in InFlight :
        /\ build = "ts"
        /\ CallOf(i).name = "scrappey_wait"
        /\ WaitFields(CallOf(i).args) = {"selector", "timeout"}
        /\ Get(wire[i].body, "browserActions").v[1].v["type"] = Str("wait_for_selector")

\* The step in which a create-session succeeds and returns x.
CreateSucceeds(x) == Settles /\ Created(reply', x)

\* The step in which a destroy-session of x succeeds.
DestroySucceeds(x) ==
    Settles /\ Destroyed(reply') /\ Get(reply'.args, DestroyKey(build)) = x

NoDuplicates(reg) == \A i, j \in 1..Len(reg) : reg[i] = reg[j] => i = j

Position(reg, x) == CHOOSE i \in 1..Len(reg) : reg[i] = x

\* The ids that two registries share come in the same order in both.
SameOrder(old, new) ==
    \A x, y \in Members(old) \cap Members(new) :
        Position(old, x) < Position(old, y) <=> Position(new, x) < Position(new, y)

\* C7: the registry holds each id once; a successful create-session adds
\* the id it returned, after the ids already there unless it is one of
\* them; a successful destroy-session removes its id; no other step changes
\* the registry or the order of its ids; and the resource listing of
\* index.js names exactly the ids of the registry, in its order.
C7_ListIsRecordedNotRemoved ==
    /\ [](NoDuplicates(Registry))
    /\ [][/\ \A x \in IdValues : CreateSucceeds(x) =>
                /\ Members(Registry') = Members(Registry) \cup {x}
                /\ SameOrder(Registry, Registry')
                /\ x \notin Members(Registry) => Registry'[Len(Registry')] = x
          /\ \A x \in IdValues : DestroySucceeds(x) =>
                /\ Members(Registry') = Members(Registry) \ {x}
                /\ SameOrder(Registry, Registry')
          /\ (~\E x \in IdValues : CreateSucceeds(x) \/ DestroySucceeds(x)) =>
                Registry' = Registry
          /\ (ListResources /\ build = "js") =>
                /\ Len(reply'.resources) = Len(activeSessions)
                /\ \A i \in 1..Len(activeSessions) :
                       reply'.resources[i].uri = SessionUri(activeSessions[i])]_vars

\* Two sessions are listed, the one created second first, because the other
\* was destroyed and created again.
C7_Witness ==
    /\ build = "js"
    /\ activeSessions = <<Str("s2"), Str("s1")>>
    /\ reply.kind = "list"
    /\ Len(reply.resources) = 2
    /\ reply.resources[1].uri = <<"session", "://", "s2">>

\* C8, as claimed: a read in index.js finds its resource exactly when the
\* URI is session://<id> for an id the registry holds at that time.
C8_ReadFindsExactlyRegistered ==
    [][(ReadResource /\ build = "js") =>
          (reply'.found <=>
              \E i \in 1..Len(activeSessions) :
                  /\ activeSessions[i].t = "str"
                  /\ reply'.uri = SessionUri(activeSessions[i]))]_vars

\* C10, as claimed: the selector is #id for an element with an id; else the
\* class tokens (the runs of the class attribute between white space) each
\* after a dot, when there is one; else the lowercased tag name, with
\* [name="..."] when the element has a name attribute.
WhiteSpace == {" ", "\t"}

ClassTokens(className) ==
    ClassList([i \in 1..Len(className) |->
                  IF className[i] \in WhiteSpace THEN " " ELSE className[i]])

ClaimedSelector(el) ==
    IF Attr(el, "id") # <<>>
    THEN <<"#">> \o Attr(el, "id")
    ELSE IF ClassTokens(Attr(el, "class")) # <<>>
    THEN <<".">> \o JoinWith(ClassTokens(Attr(el, "class")), ".")
    ELSE <<ToLowerCase(el.tagName)>>
         \o (IF "name" \in DOMAIN el.attrs
             THEN <<"[name=\"">> \o el.attrs["name"] \o <<"\"]">>
             ELSE <<>>)

C10_SelectorPriority == selector # <<>> => selector = ClaimedSelector(element)

----
\* Whether a backend payload carries a solved page at solution.response.
HasHtmlBody(data) ==
    /\ data.t = "obj"
    /\ "solution" \in DOMAIN data.v
    /\ data.v["solution"].t = "obj"
    /\ "response" \in DOMAIN data.v["solution"].v
    /\ data.v["solution"].v["response"].t = "html"

IsPageTool(name) == name \in {"scrappey_request", "scrappey_browser_action"}

\* Whether a reply is the success envelope of a page tool with this markdown.
PageResult(r, markdown) ==
    /\ r.kind = "tool"
    /\ ~r.fault
    /\ ~r.result.isError
    /\ ReplyText(r) = JsonText([markdown |-> markdown])

\* C11: when the backend answers a scrappey_request or a
\* scrappey_browser_action with a payload that has no HTML body at
\* solution.response (payload null or empty, field absent, body empty), the
\* call returns a success envelope whose markdown is the empty string; the
\* markdown is a translation of an annotated document only when the body is
\* there.
C11_NoBodyGivesEmptyMarkdown ==
    [][\A i \in 1..Len(wire), data \in RequestPayloads :
          (/\ build = "js"
           /\ IsPageTool(CallOf(i).name)
           /\ Settle(i, [ok |-> TRUE, data |-> data])) =>
              /\ ~HasHtmlBody(data) => PageResult(reply', Str(""))
              /\ HasHtmlBody(data) =>
                     PageResult(reply', [t |-> "markdown", of |-> Annotate(data.v["solution"].v["response"].v)])]_vars

\* A scrappey_browser_action was answered without a page and returned the
\* empty markdown.
C11_Witness ==
    /\ build = "js"
    /\ reply.kind = "tool"
    /\ reply.name = "scrappey_browser_action"
    /\ reply.sent = 1
    /\ PageResult(reply, Str(""))

----
\* C12: a scrappey_browser_action posts one request.get whose browserActions
\* are the caller's list (same length, same elements, same order, also when
\* an action lacks fields) and whose session is the caller's session.
C12_ActionsForwardedAsIs ==
    \A i \in InFlight :
        (/\ build = "js"
         /\ CallOf(i).name = "scrappey_browser_action"
         /\ "browserActions" \in DOMAIN CallOf(i).args.v) =>
            /\ Cardinality({ j \in 1..Len(wire) : wire[j].call = wire[i].call }) = 1
            /\ CallOf(i).sent = 1
            /\ wire[i].cmd = Str("request.get")
            /\ Get(wire[i].params, "browserActions") = CallOf(i).args.v["browserActions"]
            /\ Get(wire[i].body, "browserActions") = CallOf(i).args.v["browserActions"]
            /\ Get(wire[i].body, "session") = Get(CallOf(i).args, "session")

\* An action without a type, after a session id, is on the wire.
C12_Witness ==
    \E i \in InFlight :
        /\ build = "js"
        /\ CallOf(i).name = "scrappey_browser_action"
        /\ Get(CallOf(i).args, "session") = Str("s1")
        /\ Get(wire[i].body, "session") = Str("s1")
        /\ Get(wire[i].body, "browserActions") = List(<<Obj([cssSelector |-> Str("#go")])>>)

----
\* One update applied to a registry: an insert at the end unless the id is
\* there, or a removal.
ApplyUpdate(reg, u) ==
    IF u.op = "add"
    THEN IF u.id \in Members(reg) THEN reg ELSE reg \o <<u.id>>
    ELSE SelectSeq(reg, LAMBDA y : y # u.id)

\* The updates of a history applied one at a time, in its order.
RECURSIVE Replay(_, _)
Replay(reg, log) ==
    IF log = <<>> THEN reg ELSE Replay(ApplyUpdate(reg, Head(log)), Tail(log))

\* C13: with create-session and destroy-session calls in flight together and
\* returning in any order, the registry is at every moment (so also once all
\* have completed) what results from applying the successful inserts and
\* removes one at a time in the order the calls returned, each id at most
\* once; the registry of the other build is never written.
C13_RegistryReplaysReturns ==
    /\ (IF build = "js" THEN activeSessions ELSE sessions) = Replay(before, returned)
    /\ (IF build = "js" THEN sessions ELSE activeSessions) = <<>>
    /\ NoDuplicates(activeSessions)
    /\ NoDuplicates(sessions)

\* Against the registry of s1, a destroy-session of s1 returned while
\* another call was in flight and a create-session then returned s1: all
\* calls have completed and s1 is registered.
C13_Witness ==
    /\ before = <<Str("s1")>>
    /\ wire = <<>>
    /\ returned = <<Update("delete", Str("s1"), TRUE), Update("add", Str("s1"), FALSE)>>
    /\ (IF build = "js" THEN activeSessions ELSE sessions) = <<Str("s1")>>

----
\* The places of the elements of a tree: the path of child positions from
\* its top element down.
RECURSIVE PathsBelow(_)
PathsBelow(el) ==
    {<<>>} \cup UNION { { <<i>> \o p : p \in PathsBelow(el.kids[i]) } : i \in 1..Len(el.kids) }

RECURSIVE HasPath(_, _)
HasPath(el, path) ==
    \/ path = <<>>
    \/ Head(path) <= Len(el.kids) /\ HasPath(el.kids[Head(path)], Tail(path))

RECURSIVE At(_, _)
At(el, path) == IF path = <<>> THEN el ELSE At(el.kids[Head(path)], Tail(path))

EndsWith(text, note) ==
    /\ Len(text) >= Len(note)
    /\ SubSeq(text, Len(text) - Len(note) + 1, Len(text)) = note

\* Whether element o is element e with its selector note: at the end of
\* its text for a link or a button, at the end of its placeholder for an
\* input.
AnnotatedAs(e, o) ==
    /\ o.tagName = e.tagName
    /\ ToLowerCase(e.tagName) \in {"a", "button"} =>
           EndsWith(TextContent(o), SelectorNote(e))
    /\ ToLowerCase(e.tagName) = "input" =>
           Attr(o, "placeholder") = Attr(e, "placeholder") \o SelectorNote(e)

\* Whether every link, button and input of a document is in the other
\* document at its place, with its note.
AllAnnotated(in, out) ==
    /\ Len(out) = Len(in)
    /\ \A k \in 1..Len(in) :
           \A p \in PathsBelow(in[k]) :
               ToLowerCase(At(in[k], p).tagName) \in {"a", "button", "input"} =>
                   /\ HasPath(out[k], p)
                   /\ AnnotatedAs(At(in[k], p), At(out[k], p))

\* C14, as claimed: when a page tool of index.js is answered with a page,
\* the document it translates has every link and every button of the page
\* with the selector note at the end of its text, and every input with the
\* note at the end of its placeholder, also where one is nested in another.
C14_EveryElementAnnotated ==
    [][\A i \in 1..Len(wire), data \in RequestPayloads :
          (/\ build = "js"
           /\ IsPageTool(CallOf(i).name)
           /\ HasHtmlBody(data)
           /\ Settle(i, [ok |-> TRUE, data |-> data])) =>
              /\ ReplyText(reply').form = "json"
              /\ ReplyText(reply').value.markdown.t = "markdown"
              /\ AllAnnotated(data.v["solution"].v["response"].v,
                              ReplyText(reply').value.markdown.of)]_vars

----
\* The step in which the remote call of a create-session or destroy-session
\* settles.
SessionCallSettles ==
    \E s \in Slots :
        /\ calls[s].pc = "awaiting"
        /\ calls'[s].pc = "idle"
        /\ IsSessionTool(build, calls[s].name)

\* C15: every step other than the settling of a create-session or of a
\* destroy-session leaves both registries as they were: the start of any
\* call, the end of any other tool's call (succeeded or failed, its session
\* registered or not), an unknown tool, a resource listing, a resource read.
C15_OnlySessionCallsWriteRegistry ==
    [][~SessionCallSettles =>
          /\ activeSessions' = activeSessions
          /\ sessions' = sessions]_vars

\* A scrappey_browser_action on session s1 succeeded and the registry,
\* which holds only s2, is as it was.
C15_Witness ==
    /\ build = "js"
    /\ reply.kind = "tool"
    /\ reply.name = "scrappey_browser_action"
    /\ Get(reply.args, "session") = Str("s1")
    /\ reply.sent = 1
    /\ ~reply.fault
    /\ ~reply.result.isError
    /\ before = <<Str("s2")>>
    /\ activeSessions = <<Str("s2")>>

----
\* C16: an invocation that awaits its remote call completes in the end; the
\* step that ends it hands back one envelope, that of this invocation, and
\* leaves every other invocation where it was; and whatever else is in
\* flight, the remote call of an awaiting invocation can settle at once.
C16_EveryCallCompletes ==
    /\ \A s \in Slots : (calls[s].pc = "awaiting") ~> (calls[s].pc = "idle")
    /\ [][\A s \in Slots :
              (calls[s].pc = "awaiting" /\ calls'[s].pc = "idle") =>
                  /\ reply'.kind = "tool"
                  /\ ~reply'.fault
                  /\ reply'.name = calls[s].name
                  /\ reply'.args = calls[s].args
                  /\ Len(reply'.result.content) = 1
                  /\ \A r \in Slots \ {s} : calls'[r] = calls[r]]_vars
    /\ [](\A s \in Slots : calls[s].pc = "awaiting" => ENABLED SettleOf(s))

\* A remote call has failed and its invocation has completed with the
\* error envelope while the invocation started after it is still awaiting.
C16_Witness ==
    /\ calls[1].pc = "idle"
    /\ calls[2].pc = "awaiting"
    /\ IsRemoteFailure(reply)

====
